---- MODULE Spec2Model ----
(***************************************************************************)
(* Model of src/src/doit.ts: a Node process that dumps a database with     *)
(* pg_dump | gzip into a staging file, uploads it with one S3 put, and     *)
(* deletes the local file, once at startup and/or on every cron firing.    *)
(*                                                                         *)
(* Node runs one callback at a time: everything between two awaits is one  *)
(* atomic step.  A pipeline run therefore has three steps:                 *)
(*   - its synchronous start (performBackup up to the exec of the shell),  *)
(*   - the settlement of the exec promise (validation, cleanup on failure, *)
(*     start of uploadToS3 up to s3Client.send),                           *)
(*   - the settlement of the put (logs, local delete).                     *)
(* process.exit(1) ends the process inside the step that calls it.         *)
(***************************************************************************)
EXTENDS Integers, Sequences, FiniteSets, TLC

\* ---- bounds ----
MaxFirings == 1          \* cron firings explored
MaxStderrLen == 1        \* length of the stderr texts explored

\* ---- program constant ----
MinSize == 20            \* doit.ts:42  stats.size < 20

VARIABLES env, procStatus, triggers, now, runs, disk, uploads, log

vars == <<env, procStatus, triggers, now, runs, disk, uploads, log>>

\* ---- environment (process.env), read-only for the process lifetime ----
CronValues == {"unset", "blank", "valid", "malformed"}
StartupValues == {"unset", "false", "true"}
EnvValues == [url : BOOLEAN, cron : CronValues, startup : StartupValues]

\* ---- strings as sequences of characters; String.prototype.trim ----
Chars == {" ", "w"}
IsSpace(c) == c = " "

RECURSIVE TrimStart(_)
TrimStart(s) == IF s # <<>> /\ IsSpace(Head(s)) THEN TrimStart(Tail(s)) ELSE s

RECURSIVE TrimEnd(_)
TrimEnd(s) ==
  IF s # <<>> /\ IsSpace(s[Len(s)]) THEN TrimEnd(SubSeq(s, 1, Len(s) - 1)) ELSE s

Trim(s) == TrimEnd(TrimStart(s))

StderrValues == UNION {[1..n -> Chars] : n \in 0..MaxStderrLen}

\* ---- what the shell command `pg_dump ... | gzip > file` can leave behind ----
Kinds == {"none", "file", "special"}
Sizes == {0, MinSize - 1, MinSize}
ExecOutcomes ==
  {o \in [rejected : BOOLEAN, stderr : StderrValues, kind : Kinds, size : Sizes] :
     o.kind = "none" => o.size = 0}
NoOutcome == [rejected |-> FALSE, stderr |-> <<>>, kind |-> "none", size |-> 0]

\* ---- file naming (createBackup, lines 17-20) ----
Filename(t) == <<"backup", t>>
FilePath(fn) == <<"backups", fn>>

\* ---- process.exit / end of the event loop ----
\* a process.exit that returns instead of ending the process
ProcessExitIgnored(code) == "running"

ProcessExit(code) == IF code = 0 THEN "exit0" ELSE "exit1"

Alive == procStatus = "running"

InFlight(rs) == {r \in 1..Len(rs) : rs[r].pc \in {"dumping", "uploading"}}

\* Node ends with status 0 when no timer and no pending promise is left.
Settle(status, trig, rs) ==
  IF status = "running" /\ trig = 0 /\ InFlight(rs) = {} THEN ProcessExit(0)
  ELSE status

\* ---- fs.unlinkSync ----
\* an unlink that never removes the file
UnlinkNoop(d, p, ok) == d

Unlink(d, p, ok) == IF ok THEN d \ {p} ELSE d

\* ---- createBackup ----
\* the stderr test without the trim
HasStderrNoTrim(stderr) == stderr # <<>>

\* line 35
HasStderr(stderr) == stderr # <<>> /\ Trim(stderr) # <<>>

\* lines 30-47: the failure the try block raises, "none" when it returns
TryBlock(o) ==
  IF o.rejected THEN "ExecError"
  ELSE IF HasStderr(o.stderr) THEN "PgDumpError"
  ELSE IF o.kind = "none" THEN "StatError"
  ELSE IF o.kind # "file" \/ o.size < MinSize THEN "TooSmall"
  ELSE "none"

\* a catch block that rethrows without removing the partial file
CatchBlockNoCleanup(d, p, error, unlinkOk) ==
  [disk |-> d, unlinkError |-> FALSE, thrown |-> error]

\* lines 48-62: cleanup and rethrow
CatchBlock(d, p, error, unlinkOk) ==
  [disk |-> IF p \in d THEN Unlink(d, p, unlinkOk) ELSE d,
   unlinkError |-> p \in d /\ ~unlinkOk,
   thrown |-> error]

\* the state of the staging directory once the shell has ended
AfterShell(d, p, o) == IF o.kind = "none" THEN d \ {p} ELSE d \cup {p}

\* lines 30-62 from the settlement of exec on
CreateBackupSettle(d, run, o, unlinkOk) ==
  LET p == FilePath(run.filename)
      d1 == AfterShell(d, p, o)
      failure == TryBlock(o)
  IN IF failure = "none"
     THEN [ok |-> TRUE, error |-> "none", disk |-> d1,
           artifact |-> [filePath |-> p, filename |-> run.filename],
           events |-> <<"artifactReturned">>]
     ELSE LET c == CatchBlock(d1, p, failure, unlinkOk)
          IN [ok |-> FALSE, error |-> c.thrown, disk |-> c.disk,
              artifact |-> [filePath |-> <<>>, filename |-> <<>>],
              events |-> IF c.unlinkError THEN <<"createFailed", "cleanupFailed">>
                         ELSE <<"createFailed">>]

\* ---- performBackup, synchronous start (lines 108-116, 15-32) ----
NoArtifact == [filePath |-> <<>>, filename |-> <<>>]

PerformBackupStart(origin, t, urlSet) ==
  IF ~urlSet
  THEN [origin |-> origin, filename |-> <<>>, pc |-> "failed", outcome |-> NoOutcome,
        artifact |-> NoArtifact, error |-> "UrlNotSet", trace |-> <<"failedLogged">>]
  ELSE [origin |-> origin, filename |-> Filename(t), pc |-> "dumping",
        outcome |-> NoOutcome, artifact |-> NoArtifact, error |-> "none",
        trace |-> <<"targetChecked", "dumpStarted">>]

\* ---- scheduleBackup (lines 96-105) ----
HasCron(c) == c \notin {"unset", "blank"}
CronValid(c) == c = "valid"
\* a schedule call that registers the task before validating the expression
ScheduleBackupRegisterFirst(c) == [registered |-> 1, thrown |-> ~CronValid(c)]

\* cron.schedule throws on a malformed expression and registers nothing
ScheduleBackup(c) ==
  IF CronValid(c) THEN [registered |-> 1, thrown |-> FALSE]
  ELSE [registered |-> 0, thrown |-> TRUE]

\* a truthiness test of RUN_ON_STARTUP instead of the comparison with 'true'
RunOnStartupTruthy(e) == e.startup # "unset"

RunOnStartup(e) == e.startup = "true"

Init ==
  /\ env \in EnvValues
  /\ procStatus = "init"
  /\ triggers = 0
  /\ now = 0
  /\ runs = <<>>
  /\ disk = {}
  /\ uploads = <<>>
  /\ log = <<>>

\* ---- initialize (lines 131-150) ----
Initialize ==
  /\ procStatus = "init"
  /\ IF ~env.url
     THEN /\ procStatus' = ProcessExit(1)
          /\ log' = Append(log, "UrlNotSet")
          /\ UNCHANGED <<triggers, runs>>
     ELSE LET sched == IF HasCron(env.cron) THEN ScheduleBackup(env.cron)
                       ELSE [registered |-> 0, thrown |-> FALSE]
              first == PerformBackupStart("startup", now, env.url)
              rs == IF RunOnStartup(env) THEN <<first>> ELSE <<>>
          IN /\ triggers' = sched.registered
             /\ log' = IF sched.thrown THEN Append(log, "InvalidCron") ELSE log
             /\ runs' = rs
             /\ procStatus' = IF \E r \in 1..Len(rs) : rs[r].pc = "failed"
                              THEN ProcessExit(1)
                              ELSE Settle("running", sched.registered, rs)
  /\ UNCHANGED <<env, now, disk, uploads>>

\* a firing that is skipped while an earlier run is in progress
FireSkipIfBusy ==
  /\ Alive
  /\ triggers > 0
  /\ now < MaxFirings
  /\ now' = now + 1
  /\ LET run == PerformBackupStart("firing", now + 1, env.url)
     IN /\ runs' = IF InFlight(runs) = {} THEN Append(runs, run) ELSE runs
        /\ procStatus' = IF run.pc = "failed" THEN ProcessExit(1) ELSE procStatus
  /\ UNCHANGED <<env, triggers, disk, uploads, log>>

\* ---- a firing of the registered trigger (lines 99-102) ----
Fire ==
  /\ Alive
  /\ triggers > 0
  /\ now < MaxFirings
  /\ now' = now + 1
  /\ LET run == PerformBackupStart("firing", now + 1, env.url)
     IN /\ runs' = Append(runs, run)
        /\ procStatus' = IF run.pc = "failed" THEN ProcessExit(1) ELSE procStatus
  /\ UNCHANGED <<env, triggers, disk, uploads, log>>

\* an upload called with its two arguments swapped
UploadStartSwapped(r, artifact, readOk) ==
  [call |-> [run |-> r, filePath |-> artifact.filename, filename |-> artifact.filePath],
   ok |-> readOk,
   events |-> IF readOk THEN <<"uploadInvoked", "fileRead", "putSent">>
              ELSE <<"uploadInvoked", "readFailed">>]

\* ---- uploadToS3, synchronous start (lines 66-87) ----
UploadStart(r, artifact, readOk) ==
  [call |-> [run |-> r, filePath |-> artifact.filePath, filename |-> artifact.filename],
   ok |-> readOk,
   events |-> IF readOk THEN <<"uploadInvoked", "fileRead", "putSent">>
              ELSE <<"uploadInvoked", "readFailed">>]

\* ---- the exec promise of run r settles (lines 32-62, 116-117, 66-87) ----
ExecDone(r, o, unlinkOk, readOk) ==
  /\ Alive
  /\ runs[r].pc = "dumping"
  /\ LET cb == CreateBackupSettle(disk, runs[r], o, unlinkOk)
         up == UploadStart(r, cb.artifact, readOk)
     IN /\ disk' = cb.disk
        /\ IF ~cb.ok
           THEN /\ runs' = [runs EXCEPT ![r] =
                      [@ EXCEPT !.pc = "failed", !.outcome = o, !.error = cb.error,
                                !.trace = @ \o cb.events \o <<"failedLogged">>]]
                /\ procStatus' = ProcessExit(1)
                /\ UNCHANGED uploads
           ELSE /\ uploads' = Append(uploads, up.call)
                /\ IF up.ok
                   THEN /\ runs' = [runs EXCEPT ![r] =
                              [@ EXCEPT !.pc = "uploading", !.outcome = o,
                                        !.artifact = cb.artifact,
                                        !.trace = @ \o cb.events \o up.events]]
                        /\ UNCHANGED procStatus
                   ELSE /\ runs' = [runs EXCEPT ![r] =
                              [@ EXCEPT !.pc = "failed", !.outcome = o,
                                        !.artifact = cb.artifact, !.error = "ReadError",
                                        !.trace = @ \o cb.events \o up.events
                                                    \o <<"failedLogged">>]]
                        /\ procStatus' = ProcessExit(1)
  /\ UNCHANGED <<env, triggers, now, log>>

\* a cleanup that deletes the local file before logging completion
FinishDeleteFirst(d, p, unlinkOk) ==
  [disk |-> Unlink(d, p, unlinkOk),
   ok |-> unlinkOk,
   events |-> IF unlinkOk THEN <<"deleted", "completedLogged", "removedLogged">>
              ELSE <<"deleteFailed">>]

\* ---- performBackup after the upload (lines 119-123) ----
Finish(d, p, unlinkOk) ==
  [disk |-> Unlink(d, p, unlinkOk),
   ok |-> unlinkOk,
   events |-> IF unlinkOk THEN <<"completedLogged", "deleted", "removedLogged">>
              ELSE <<"completedLogged", "deleteFailed">>]

\* ---- the put of run r settles (lines 87-92, 117-128) ----
PutDone(r, putOk, unlinkOk) ==
  /\ Alive
  /\ runs[r].pc = "uploading"
  /\ IF ~putOk
     THEN /\ runs' = [runs EXCEPT ![r] =
                [@ EXCEPT !.pc = "failed", !.error = "PutError",
                          !.trace = @ \o <<"putFailed", "failedLogged">>]]
          /\ procStatus' = ProcessExit(1)
          /\ UNCHANGED disk
     ELSE LET f == Finish(disk, runs[r].artifact.filePath, unlinkOk)
          IN /\ disk' = f.disk
             /\ IF f.ok
                THEN /\ runs' = [runs EXCEPT ![r] =
                           [@ EXCEPT !.pc = "done",
                                     !.trace = @ \o <<"putAcked">> \o f.events]]
                     /\ procStatus' = Settle(procStatus, triggers, runs')
                ELSE /\ runs' = [runs EXCEPT ![r] =
                           [@ EXCEPT !.pc = "failed", !.error = "UnlinkError",
                                     !.trace = @ \o <<"putAcked">> \o f.events
                                                 \o <<"failedLogged">>]]
                     /\ procStatus' = ProcessExit(1)
  /\ UNCHANGED <<env, triggers, now, uploads, log>>

Next ==
  \/ Initialize
  \/ Fire
  \/ \E r \in 1..Len(runs), o \in ExecOutcomes, unlinkOk \in BOOLEAN, readOk \in BOOLEAN :
       ExecDone(r, o, unlinkOk, readOk)
  \/ \E r \in 1..Len(runs), putOk \in BOOLEAN, unlinkOk \in BOOLEAN :
       PutDone(r, putOk, unlinkOk)

Spec == Init /\ [][Next]_vars

\* ---------------------------------------------------------------------------
\* Properties
\* ---------------------------------------------------------------------------
Runs == 1..Len(runs)
Started == procStatus # "init"
RunPath(r) == FilePath(runs[r].filename)
CallsOf(r) == {i \in 1..Len(uploads) : uploads[i].run = r}
Has(t, e) == \E i \in 1..Len(t) : t[i] = e
Pos(t, e) == IF Has(t, e) THEN CHOOSE i \in 1..Len(t) : t[i] = e ELSE 0
\* event b occurs in t only after event a
Before(t, a, b) == Has(t, b) => (Has(t, a) /\ Pos(t, a) < Pos(t, b))
CreateErrors == {"ExecError", "PgDumpError", "StatError", "TooSmall"}
CreateSettled(r) == runs[r].pc # "dumping" /\ runs[r].error # "UrlNotSet"
CreateReturned(r) == runs[r].artifact # NoArtifact
IsBlank(s) == \A i \in 1..Len(s) : s[i] = " "
StartupRuns == {r \in Runs : runs[r].origin = "startup"}
FiringRuns == {r \in Runs : runs[r].origin = "firing"}
ExpectedStartupRuns == IF env.startup = "true" THEN 1 ELSE 0

\* C1: after a successful pipeline run the staging file of that run is not on
\* disk, and uploadToS3 was invoked exactly once in that run, with the filePath
\* and filename that the run's createBackup returned.
C1_SuccessCleanAndUploadedOnce ==
  \A r \in Runs : runs[r].pc = "done" =>
    /\ RunPath(r) \notin disk
    /\ runs[r].artifact = [filePath |-> RunPath(r), filename |-> runs[r].filename]
    /\ Cardinality(CallsOf(r)) = 1
    /\ \A i \in CallsOf(r) : /\ uploads[i].filePath = runs[r].artifact.filePath
                             /\ uploads[i].filename = runs[r].artifact.filename

C1_Witness ==
  \E r \in Runs : runs[r].pc = "done" /\ runs[r].outcome.kind = "file" /\ CallsOf(r) # {}

\* C2: after a failed pipeline run, whichever stage failed, the staging
\* directory holds no artifact file of that run.  (A run whose own unlink call
\* threw is left aside: there the file cannot be gone, whatever the code does.)
UnlinkThrew(r) ==
  Has(runs[r].trace, "cleanupFailed") \/ Has(runs[r].trace, "deleteFailed")

C2_FailedRunLeavesNoArtifact ==
  \A r \in Runs : (runs[r].pc = "failed" /\ ~UnlinkThrew(r)) => RunPath(r) \notin disk

\* C3: a failure of any stage (missing connection target, createBackup,
\* uploadToS3, local delete) ends the process with status 1, and no step of any
\* run is taken once the process has exited.
C3_FailureExits ==
  ((\E r \in Runs : runs[r].pc = "failed") \/ (Started /\ ~env.url))
    => procStatus = "exit1"

C3_FailureIsFatal == []C3_FailureExits /\ [][procStatus # "exit1"]_vars

C3_Witness ==
  /\ procStatus = "exit1"
  /\ \E r \in Runs : runs[r].pc = "failed" /\ runs[r].error = "PutError"
  /\ \E r \in Runs : runs[r].pc \in {"dumping", "uploading"}

\* C4 (as stated): while the process lives at most one artifact file exists in
\* the staging directory.
C4_AtMostOneArtifact == procStatus \in {"init", "running"} => Cardinality(disk) <= 1

\* C4 (amended): while the process lives every artifact file in the staging
\* directory belongs to a pipeline run in progress, so there are never more
\* files than runs in progress (and at most one when runs do not overlap).
C4_ArtifactsBelongToRunsInProgress ==
  procStatus \in {"init", "running"} =>
    /\ \A p \in disk : \E r \in InFlight(runs) : p = RunPath(r)
    /\ Cardinality(disk) <= Cardinality(InFlight(runs))

C4_Witness == procStatus = "running" /\ Cardinality(disk) >= 2

\* C5 (as stated): at most one pipeline run of the process is in progress at
\* any time.
C5_RunsNeverOverlap == Cardinality(InFlight(runs)) <= 1

\* C5 (amended): every firing, and run-on-startup, starts its pipeline run at
\* once whether or not an earlier run is in progress: the runs started are the
\* firings plus the startup run, and runs of one process may overlap.
C5_EveryFiringStartsARun ==
  (Started /\ env.url) =>
    /\ Len(runs) = now + ExpectedStartupRuns
    /\ Cardinality(FiringRuns) = now

C5_Witness == procStatus = "running" /\ Cardinality(InFlight(runs)) >= 2

\* C6 (as stated): on every failure path of createBackup the destination file
\* does not exist when the error reaches the caller, and that error is the
\* original failure.
C6_FailedCreateLeavesNoFile ==
  \A r \in Runs : runs[r].error \in CreateErrors =>
    /\ RunPath(r) \notin disk
    /\ runs[r].error = TryBlock(runs[r].outcome)

\* C6 (amended): on every failure path of createBackup the error that reaches
\* the caller is the original failure, and the destination file does not exist
\* then unless the cleanup's own unlink failed (which is only logged).
C6_FailedCreateCleansUnlessUnlinkFails ==
  \A r \in Runs : runs[r].error \in CreateErrors =>
    /\ runs[r].error = TryBlock(runs[r].outcome)
    /\ RunPath(r) \in disk => Has(runs[r].trace, "cleanupFailed")
    /\ Has(runs[r].trace, "cleanupFailed") => runs[r].outcome.kind # "none"

C6_Witness ==
  \E r \in Runs : /\ runs[r].error = "PgDumpError"
                  /\ runs[r].outcome.kind = "file"
                  /\ RunPath(r) \notin disk

\* C7 (as stated): createBackup returns an artifact exactly when the command
\* returned cleanly, stderr is empty and the destination is a regular file of
\* at least 20 bytes.
C7_ReturnsIffCleanEmptyStderrValid ==
  \A r \in Runs : CreateSettled(r) =>
    (CreateReturned(r) <=> /\ ~runs[r].outcome.rejected
                           /\ runs[r].outcome.stderr = <<>>
                           /\ runs[r].outcome.kind = "file"
                           /\ runs[r].outcome.size >= MinSize)

\* C7 (amended): createBackup returns an artifact exactly when the command
\* returned cleanly, stderr is empty or holds only whitespace, and the
\* destination is a regular file of at least 20 bytes.
C7_ReturnsIffCleanBlankStderrValid ==
  \A r \in Runs : CreateSettled(r) =>
    (CreateReturned(r) <=> /\ ~runs[r].outcome.rejected
                           /\ IsBlank(runs[r].outcome.stderr)
                           /\ runs[r].outcome.kind = "file"
                           /\ runs[r].outcome.size >= MinSize)

C7_Witness ==
  \E r \in Runs : /\ CreateSettled(r)
                  /\ CreateReturned(r)
                  /\ runs[r].outcome.stderr # <<>>

\* C8: with a valid cadence expression initialize registers exactly one
\* trigger and starts one immediate run when RUN_ON_STARTUP is 'true', none
\* otherwise (the first run then comes with the first firing).
C8_ValidCronRegistersOneTrigger ==
  (Started /\ env.url /\ env.cron = "valid") =>
    /\ triggers = 1
    /\ Cardinality(StartupRuns) = ExpectedStartupRuns
    /\ now = 0 => Len(runs) = ExpectedStartupRuns

C8_Witness ==
  /\ env.cron = "valid"
  /\ env.startup = "false"
  /\ triggers = 1
  /\ now = 1
  /\ Len(runs) = 1

\* C9: with a malformed cadence expression no trigger is registered and no run
\* is ever started by a firing; initialize logs the failure, does not exit
\* because of it, and still makes the run-on-startup decision.
C9_MalformedCronRegistersNothing ==
  (Started /\ env.url /\ env.cron = "malformed") =>
    /\ triggers = 0
    /\ now = 0
    /\ FiringRuns = {}
    /\ log = <<"InvalidCron">>
    /\ Len(runs) = ExpectedStartupRuns
    /\ procStatus = "exit1" => \E r \in Runs : runs[r].pc = "failed"
    /\ procStatus = "exit0" => InFlight(runs) = {}

C9_Witness ==
  /\ env.cron = "malformed"
  /\ env.startup = "true"
  /\ procStatus = "running"
  /\ Len(runs) = 1

\* C10 (as stated): in every run the local artifact is deleted before
\* completion is logged, so completion is never logged while the artifact
\* still exists.
C10_DeleteBeforeCompletionLog ==
  \A r \in Runs : Before(runs[r].trace, "deleted", "completedLogged")

\* C10 (amended): in every run the steps happen in the order: connection
\* target checked -> createBackup returns a validated artifact -> uploadToS3 is
\* invoked -> the put is acknowledged -> completion is logged -> the local
\* artifact is deleted; without a connection target the process exits with
\* status 1 and nothing is dumped, uploaded or registered.
C10_StepOrder ==
  /\ \A r \in Runs :
       LET t == runs[r].trace
       IN /\ Before(t, "targetChecked", "dumpStarted")
          /\ Before(t, "dumpStarted", "artifactReturned")
          /\ Before(t, "artifactReturned", "uploadInvoked")
          /\ Before(t, "uploadInvoked", "putAcked")
          /\ Before(t, "putAcked", "completedLogged")
          /\ Before(t, "completedLogged", "deleted")
          /\ Has(t, "uploadInvoked") => TryBlock(runs[r].outcome) = "none"
          /\ Has(t, "deleted") <=> runs[r].pc = "done"
  /\ (Started /\ ~env.url) =>
       procStatus = "exit1" /\ runs = <<>> /\ uploads = <<>> /\ triggers = 0 /\ disk = {}

C10_Witness ==
  \E r \in Runs : runs[r].pc = "done" /\ Has(runs[r].trace, "completedLogged")
                                      /\ Has(runs[r].trace, "deleted")
====
